---- MODULE Spec2Model ----
(***************************************************************************)
(* The inhibition controller of caffeine-ng (src/caffeine/core.py, class   *)
(* Caffeine): the activation flags, the timed-activation timer, the        *)
(* backend detection and the four backend adapters, the notification       *)
(* helper and the auto-activation monitor.                                 *)
(*                                                                         *)
(* Every public entry point of the class is one action.  The body of a     *)
(* method is an operator from a record of the object's fields (plus the    *)
(* services it talks to) to the record after the call; an exception that   *)
(* leaves a method is the field exc of that record, and every statement    *)
(* after the raising one is skipped, as in Python.  A call to the session  *)
(* bus, to a D-Bus service or to the notification daemon may succeed or    *)
(* raise, so a method maps a record to the SET of records it may leave.    *)
(***************************************************************************)
EXTENDS Integers, Sequences, FiniteSets, TLC

\* Cookies and GLib source ids that are stored or outstanding at one time.
MaxIds == 3
\* threading.Timer objects that are referred to or waiting at one time.
MaxTimers == 2
\* Disturbances during one run: calls that raise, and changes of the services
\* the host offers.
MaxDisturbances == 1
\* The durations handed to timed_activation.
Durations == {5, 10}
\* The names the process manager may list, and the other processes of the host.
Procs == {"vlc", "mpv"}

VARIABLES
    inhibition_activated,   \* self.__inhibition_activated
    inhibition_successful,  \* self.__inhibition_successful
    auto_activated,         \* self.__auto_activated
    screensaverAndPowersavingType,
    status_string,
    screenSaverCookie,
    powerManagementCookie,
    timer,                  \* self.timer: the Timer object referred to
    inhibit_id,             \* self.inhibit_id
    ssProxy,                \* the attribute self.ssProxy exists
    held,                   \* inhibitions outstanding at the D-Bus services
    sources,                \* GLib keepalive sources installed by _toggleXSS
    live,                   \* Timer threads started, not cancelled, not run
    quitted,                \* quit() has run
    expiring,               \* the Timer thread that is inside its function
    host,                   \* the bus names and processes of the host
    disturbances,           \* calls that have raised and changes of the host
    emitted,                \* activation-toggled events of the last operation
    calls,                  \* backend calls of the last operation
    cancelled,              \* timers the last operation cancelled
    shown,                  \* notifications displayed by the last operation
    stray,                  \* uninhibit calls of the last operation that passed
                            \* a cookie the service called does not hold
    exc,                    \* the last operation left by an exception
    lastOp                  \* the last operation's name

vars == <<inhibition_activated, inhibition_successful, auto_activated,
          screensaverAndPowersavingType, status_string, screenSaverCookie,
          powerManagementCookie, timer, inhibit_id, ssProxy, held,
          sources, live, quitted, expiring, host, disturbances, emitted, calls,
          cancelled, shown, stray, exc, lastOp>>

----------------------------------------------------------------------------
\* Values

NoCookie == [svc |-> "none", n |-> 0]
NoTimer == [id |-> 0, interval |-> 0, name |-> "none"]
\* No Timer thread is inside its function.
NoThread == [pc |-> "idle", id |-> 0, note |-> FALSE]

EmptyStatus == [k |-> "", d |-> 0, t |-> ""]
DormantStatus == [k |-> "Caffeine is dormant; powersaving is enabled", d |-> 0, t |-> ""]
ActivatedForStatus(time) == [k |-> "Activated for ", d |-> time, t |-> ""]
PreventingStatus(type) ==
    [k |-> "Caffeine is preventing powersaving modes and screensaver activation ",
     d |-> 0, t |-> type]

TimedSetMessage(time) == [k |-> "Timed activation set; ", d |-> time]
CancelledMessage(interval) == [k |-> "Timed activation cancelled (was set for ", d |-> interval]
ElapsedMessage(interval) == [k |-> " have elapsed; powersaving is re-enabled", d |-> interval]

----------------------------------------------------------------------------
\* Helpers on the record of the object's fields

Raise(s) == [s EXCEPT !.exc = TRUE, !.disturbances = @ + 1]
Call(s, c) == [s EXCEPT !.calls = Append(@, c)]

\* The statements after a call that may have raised: skipped once it has.
Then(S, F(_)) == UNION {IF x.exc THEN {x} ELSE F(x) : x \in S}

\* A cookie or source id no service and no field knows.  (A service never
\* hands out an id that is outstanding; an id nothing refers to any more is
\* as good as a new one.)
FreshId(s) ==
    LET used == {c.n : c \in s.held} \cup s.sources
                \cup {s.screenSaverCookie.n, s.powerManagementCookie.n, s.inhibit_id}
    IN  CHOOSE n \in 1..(Cardinality(used) + 1) :
            n \notin used /\ \A m \in 1..(n - 1) : m \in used

\* The identity of a new Timer object: that of no Timer whose thread waits or
\* runs, and not that of the Timer self.timer still refers to while the new
\* one is made.
FreshTimer(s) ==
    LET used == {t.id : t \in s.live} \cup {s.timer.id, s.expiring.id}
    IN  CHOOSE n \in 1..(Cardinality(used) + 1) :
            n \notin used /\ \A m \in 1..(n - 1) : m \in used

\* service.Inhibit(...): the service records the inhibition and returns its cookie.
Inhibit(s, svc) ==
    LET c == [svc |-> svc, n |-> FreshId(s)]
    IN  [[Call(s, svc \o ".Inhibit") EXCEPT !.held = @ \cup {c}] EXCEPT !.cookie = c]

\* service.UnInhibit(cookie): the service drops the inhibition the cookie names,
\* if it is one of its own and still outstanding.
UnInhibit(s, svc, cookie) ==
    [Call(s, svc \o ".UnInhibit") EXCEPT
        !.held = @ \ {c \in @ : c = cookie /\ c.svc = svc},
        !.stray = IF cookie \in s.held /\ cookie.svc = svc
                  THEN @
                  ELSE @ \cup {[svc |-> svc, cookie |-> cookie]}]

\* threading.Timer.cancel() on self.timer
Cancel(s) ==
    [s EXCEPT !.live = {t \in @ : t.id # s.timer.id},
              !.cancelled = Append(@, s.timer)]

get_activated(s) == s.activated

emit(s) ==
    [s EXCEPT !.emitted = Append(@, [active |-> get_activated(s), status |-> s.status])]

----------------------------------------------------------------------------
\* _notify: the try block, whose every exception is caught (finally: return),
\* so that the record it leaves never has exc set.  self.note only chooses
\* between update() and Notification(), and is left out.

_notify(s, message) ==
    LET guard == s.screenSaverCookie # NoCookie /\ s.successful
        built == {Raise(s), s}
        uninhibited ==
            Then(built, LAMBDA a :
                IF ~guard THEN {a}
                ELSE IF ~a.ssProxy THEN {Raise(a)}
                ELSE {Raise(a), UnInhibit(a, "ss", a.screenSaverCookie)})
        displayed ==
            Then(uninhibited, LAMBDA a :
                {Raise(a), [a EXCEPT !.shown = Append(@, message)]})
        inhibited ==
            Then(displayed, LAMBDA a :
                IF ~guard THEN {a}
                ELSE {Raise(a),
                      LET b == Inhibit(a, "ss")
                      IN  [b EXCEPT !.screenSaverCookie = b.cookie]})
    IN  {[a EXCEPT !.exc = FALSE] : a \in inhibited}

----------------------------------------------------------------------------
\* Backend detection and the adapters

BusNames == {"org.gnome.SessionManager", "org.freedesktop.ScreenSaver",
             "org.freedesktop.PowerManagement.Inhibit"}
\* What the host offers when the detection looks: the names on the session
\* bus and whether an xscreensaver process runs.
Environments == [names : SUBSET BusNames, xscreensaver : BOOLEAN]

DetectedType(env) ==
    IF "org.gnome.SessionManager" \in env.names THEN "Gnome3"
    ELSE IF "org.freedesktop.ScreenSaver" \in env.names
            /\ "org.freedesktop.PowerManagement.Inhibit" \in env.names THEN "KDE"
    ELSE IF env.xscreensaver THEN "XSS+DPMS"
    ELSE "DPMS"

\* dbus.SessionBus() may raise; the names on the bus decide the type.
_detectScreensaverAndPowersavingType(s) ==
    {Raise(s), [Call(s, "bus.list_names") EXCEPT !.ssType = DetectedType(s.host)]}

_toggleDPMS(s) ==
    IF s.successful
    THEN Call(Call(s, "xset +dpms"), "xset s on")
    ELSE Call(Call(s, "xset -dpms"), "xset s off")

_toggleXSS(s) ==
    IF s.successful
    THEN IF s.inhibit_id # 0
         THEN [Call(s, "GObject.source_remove") EXCEPT !.sources = @ \ {s.inhibit_id}]
         ELSE s
    ELSE LET id == FreshId(s)
         IN  [Call(s, "GObject.timeout_add") EXCEPT
                !.inhibit_id = id,
                !.sources = @ \cup {id}]

_toggleXSSAndDPMS(s) == _toggleDPMS(_toggleXSS(s))

_toggleGnome3(s) ==
    LET s1 == _toggleDPMS(s)
        \* dbus.SessionBus(), bus.get_object
        proxy == {Raise(s1), s1}
    IN  Then(proxy, LAMBDA a :
            IF a.successful
            THEN IF a.screenSaverCookie # NoCookie
                 THEN {Raise(a), UnInhibit(a, "sm", a.screenSaverCookie)}
                 ELSE {a}
            ELSE {Raise(a),
                  LET b == Inhibit(a, "sm")
                  IN  [b EXCEPT !.screenSaverCookie = b.cookie]})

\* _toggleKDE without the two tests for a cookie: UnInhibit is called with
\* whatever the fields hold.
_toggleKDE_unguarded(s) ==
    LET s1 == _toggleDPMS(s)
        ss == {Raise(s1), [s1 EXCEPT !.ssProxy = TRUE]}
        pm == Then(ss, LAMBDA a : {Raise(a), a})
    IN  Then(pm, LAMBDA a :
            IF a.successful
            THEN Then({Raise(a), UnInhibit(a, "ss", a.screenSaverCookie)},
                      LAMBDA b :
                         {Raise(b), UnInhibit(b, "pm", b.powerManagementCookie)})
            ELSE Then({Raise(a),
                       LET b == Inhibit(a, "pm")
                       IN  [b EXCEPT !.powerManagementCookie = b.cookie]},
                      LAMBDA b :
                         {Raise(b),
                          LET c == Inhibit(b, "ss")
                          IN  [c EXCEPT !.screenSaverCookie = c.cookie]}))

\* _toggleKDE releasing in the order of acquisition: power management first.
_toggleKDE_releases_pm_first(s) ==
    LET s1 == _toggleDPMS(s)
        ss == {Raise(s1), [s1 EXCEPT !.ssProxy = TRUE]}
        pm == Then(ss, LAMBDA a : {Raise(a), a})
    IN  Then(pm, LAMBDA a :
            IF a.successful
            THEN Then(IF a.powerManagementCookie # NoCookie
                      THEN {Raise(a), UnInhibit(a, "pm", a.powerManagementCookie)}
                      ELSE {a},
                      LAMBDA b :
                         IF b.screenSaverCookie # NoCookie
                         THEN {Raise(b), UnInhibit(b, "ss", b.screenSaverCookie)}
                         ELSE {b})
            ELSE Then({Raise(a),
                       LET b == Inhibit(a, "pm")
                       IN  [b EXCEPT !.powerManagementCookie = b.cookie]},
                      LAMBDA b :
                         {Raise(b),
                          LET c == Inhibit(b, "ss")
                          IN  [c EXCEPT !.screenSaverCookie = c.cookie]}))

_toggleKDE(s) ==
    LET s1 == _toggleDPMS(s)
        \* dbus.SessionBus(), the first bus.get_object
        ss == {Raise(s1), [s1 EXCEPT !.ssProxy = TRUE]}
        \* the second bus.get_object
        pm == Then(ss, LAMBDA a : {Raise(a), a})
    IN  Then(pm, LAMBDA a :
            IF a.successful
            THEN Then(IF a.screenSaverCookie # NoCookie
                      THEN {Raise(a), UnInhibit(a, "ss", a.screenSaverCookie)}
                      ELSE {a},
                      LAMBDA b :
                         IF b.powerManagementCookie # NoCookie
                         THEN {Raise(b), UnInhibit(b, "pm", b.powerManagementCookie)}
                         ELSE {b})
            ELSE Then({Raise(a),
                       LET b == Inhibit(a, "pm")
                       IN  [b EXCEPT !.powerManagementCookie = b.cookie]},
                      LAMBDA b :
                         {Raise(b),
                          LET c == Inhibit(b, "ss")
                          IN  [c EXCEPT !.screenSaverCookie = c.cookie]}))

_performTogglingActions(s) ==
    LET detected == _detectScreensaverAndPowersavingType(s)
        toggled ==
            Then(detected, LAMBDA a :
                IF a.ssType = "Gnome3" THEN _toggleGnome3(a)
                ELSE IF a.ssType = "KDE" THEN _toggleKDE(a)
                ELSE IF a.ssType = "XSS+DPMS" THEN {_toggleXSSAndDPMS(a)}
                ELSE IF a.ssType = "DPMS" THEN {_toggleDPMS(a)}
                ELSE {a})
    IN  Then(toggled, LAMBDA a : {[a EXCEPT !.successful = ~a.successful]})

----------------------------------------------------------------------------
\* The inhibition state machine

\* __toggle_activated with the test of the timer's name left out of the first
\* branch: an expired timer is reported as cancelled.
__toggle_activated_ignores_name(s, n) ==
    LET flipped ==
            IF s.activated
            THEN LET a == [s EXCEPT !.activated = FALSE, !.status = DormantStatus]
                 IN  IF a.timer # NoTimer
                     THEN {[Cancel(b) EXCEPT !.timer = NoTimer] :
                             b \in IF n THEN _notify(a, CancelledMessage(a.timer.interval))
                                   ELSE {a}}
                     ELSE {a}
            ELSE {[s EXCEPT !.activated = TRUE]}
        performed == Then(flipped, LAMBDA a : _performTogglingActions(a))
    IN  Then(performed, LAMBDA a :
            LET b == IF a.status = EmptyStatus /\ a.ssType # "None"
                     THEN [a EXCEPT !.status = PreventingStatus(a.ssType)]
                     ELSE a
            IN  {[emit(b) EXCEPT !.status = EmptyStatus]})

\* __toggle_activated that turns inhibition off without cancelling the timer
\* it finds pending.
__toggle_activated_leaves_timer(s, n) ==
    LET flipped ==
            IF s.activated
            THEN LET a == [s EXCEPT !.activated = FALSE, !.status = DormantStatus]
                 IN  IF a.timer # NoTimer /\ a.timer.name # "Expired"
                     THEN IF n THEN _notify(a, CancelledMessage(a.timer.interval))
                          ELSE {a}
                     ELSE IF a.timer # NoTimer /\ a.timer.name = "Expired"
                     THEN {[b EXCEPT !.timer = NoTimer] :
                             b \in IF n THEN _notify(a, ElapsedMessage(a.timer.interval))
                                   ELSE {a}}
                     ELSE {a}
            ELSE {[s EXCEPT !.activated = TRUE]}
        performed == Then(flipped, LAMBDA a : _performTogglingActions(a))
    IN  Then(performed, LAMBDA a :
            LET b == IF a.status = EmptyStatus /\ a.ssType # "None"
                     THEN [a EXCEPT !.status = PreventingStatus(a.ssType)]
                     ELSE a
            IN  {[emit(b) EXCEPT !.status = EmptyStatus]})

__toggle_activated(s, n) ==
    LET flipped ==
            IF s.activated
            THEN LET a == [s EXCEPT !.activated = FALSE, !.status = DormantStatus]
                 IN  IF a.timer # NoTimer /\ a.timer.name # "Expired"
                     THEN {[Cancel(b) EXCEPT !.timer = NoTimer] :
                             b \in IF n THEN _notify(a, CancelledMessage(a.timer.interval))
                                   ELSE {a}}
                     ELSE IF a.timer # NoTimer /\ a.timer.name = "Expired"
                     THEN {[b EXCEPT !.timer = NoTimer] :
                             b \in IF n THEN _notify(a, ElapsedMessage(a.timer.interval))
                                   ELSE {a}}
                     ELSE {a}
            ELSE {[s EXCEPT !.activated = TRUE]}
        performed == Then(flipped, LAMBDA a : _performTogglingActions(a))
    IN  Then(performed, LAMBDA a :
            LET b == IF a.status = EmptyStatus /\ a.ssType # "None"
                     THEN [a EXCEPT !.status = PreventingStatus(a.ssType)]
                     ELSE a
            IN  {[emit(b) EXCEPT !.status = EmptyStatus]})

toggle_activated(s, show_notification) ==
    __toggle_activated([s EXCEPT !.auto = FALSE], show_notification)

\* set_activated without the comparison with the current value.
set_activated_unguarded(s, activate, show_notification) ==
    toggle_activated(s, show_notification)

set_activated(s, activate, show_notification) ==
    IF get_activated(s) # activate
    THEN toggle_activated(s, show_notification)
    ELSE {s}

__set_activated(s, activate) ==
    IF get_activated(s) # activate
    THEN __toggle_activated(s, activate)
    ELSE {s}

\* timed_activation that starts the new timer without cancelling the old one.
timed_activation_keeps_old_timer(s, time, n) ==
    LET s1 == IF s.status = EmptyStatus
              THEN emit([s EXCEPT !.status = ActivatedForStatus(time)])
              ELSE s
        activated == set_activated(s1, TRUE, n)
        notified == Then(activated, LAMBDA a :
                        IF n THEN _notify(a, TimedSetMessage(time)) ELSE {a})
    IN  Then(notified, LAMBDA a :
            LET id == FreshTimer(a)
            IN  {[a EXCEPT
                    !.timer = [id |-> id, interval |-> time, name |-> "Active"],
                    !.live = @ \cup {[id |-> id, note |-> n]}]})

timed_activation(s, time, n) ==
    LET s1 == IF s.status = EmptyStatus
              THEN emit([s EXCEPT !.status = ActivatedForStatus(time)])
              ELSE s
        activated == set_activated(s1, TRUE, n)
        notified == Then(activated, LAMBDA a :
                        IF n THEN _notify(a, TimedSetMessage(time)) ELSE {a})
    IN  Then(notified, LAMBDA a :
            LET b == IF a.timer # NoTimer THEN Cancel(a) ELSE a
                id == FreshTimer(b)
            IN  {[b EXCEPT
                    !.timer = [id |-> id, interval |-> time, name |-> "Active"],
                    !.live = @ \cup {[id |-> id, note |-> n]}]})

_deactivate(s, n) ==
    IF s.timer = NoTimer THEN {Raise(s)}
    ELSE toggle_activated([s EXCEPT !.timer.name = "Expired"], n)

\* quit that leaves the timer thread waiting.
quit_without_cancel(s) == s

quit(s) == IF s.timer # NoTimer THEN Cancel(s) ELSE s

----------------------------------------------------------------------------
\* The auto-activation monitor

\* The loop over the process manager's list: some listed process runs.
ProcessRunning(process_list, running) == \E proc \in process_list : proc \in running

\* The active window, if there is one, is in the fullscreen state.
Fullscreen(window, wm_state) == window /\ "_NET_WM_STATE_FULLSCREEN" \in wm_state

\* The monitor without its first test, the return on a manual activation.
__attempt_autoactivation_unguarded(s, process_running, fullscreen) ==
    IF ~process_running /\ ~fullscreen /\ s.auto
    THEN __set_activated([s EXCEPT !.auto = FALSE], FALSE)
    ELSE IF process_running \/ (fullscreen /\ ~s.auto)
    THEN __set_activated([s EXCEPT !.auto = TRUE], TRUE)
    ELSE {s}

\* The monitor deactivating as soon as no listed process runs, fullscreen or not.
__attempt_autoactivation_forgets_fullscreen(s, process_running, fullscreen) ==
    IF get_activated(s) /\ ~s.auto THEN {s}
    ELSE IF ~process_running /\ s.auto
    THEN __set_activated([s EXCEPT !.auto = FALSE], FALSE)
    ELSE IF process_running \/ (fullscreen /\ ~s.auto)
    THEN __set_activated([s EXCEPT !.auto = TRUE], TRUE)
    ELSE {s}

__attempt_autoactivation(s, process_running, fullscreen) ==
    IF get_activated(s) /\ ~s.auto THEN {s}
    ELSE IF ~process_running /\ ~fullscreen /\ s.auto
    THEN __set_activated([s EXCEPT !.auto = FALSE], FALSE)
    ELSE IF process_running \/ (fullscreen /\ ~s.auto)
    THEN __set_activated([s EXCEPT !.auto = TRUE], TRUE)
    ELSE {s}

----------------------------------------------------------------------------
\* The object between two operations, and the operations as actions

\* The fields as an operation finds them, with nothing emitted, called or
\* shown yet.
Begin ==
    [activated |-> inhibition_activated,
     successful |-> inhibition_successful,
     auto |-> auto_activated,
     ssType |-> screensaverAndPowersavingType,
     status |-> status_string,
     screenSaverCookie |-> screenSaverCookie,
     powerManagementCookie |-> powerManagementCookie,
     timer |-> timer,
     inhibit_id |-> inhibit_id,
     ssProxy |-> ssProxy,
     held |-> held,
     sources |-> sources,
     live |-> live,
     expiring |-> expiring,
     host |-> host,
     disturbances |-> disturbances,
     cookie |-> NoCookie,
     emitted |-> <<>>,
     calls |-> <<>>,
     cancelled |-> <<>>,
     shown |-> <<>>,
     stray |-> {},
     exc |-> FALSE]

\* The ids in use when an operation is over.
IdsInUse(s) ==
    ({c.n : c \in s.held} \cup s.sources
     \cup {s.screenSaverCookie.n, s.powerManagementCookie.n, s.inhibit_id}) \ {0}
TimersInUse(s) == {t.id : t \in s.live}

\* The fields as an operation leaves them.
Commit(s) ==
    /\ \A n \in IdsInUse(s) : n <= MaxIds
    /\ \A n \in TimersInUse(s) : n <= MaxTimers
    /\ s.disturbances <= MaxDisturbances
    /\ disturbances' = s.disturbances
    /\ inhibition_activated' = s.activated
    /\ inhibition_successful' = s.successful
    /\ auto_activated' = s.auto
    /\ screensaverAndPowersavingType' = s.ssType
    /\ status_string' = s.status
    /\ screenSaverCookie' = s.screenSaverCookie
    /\ powerManagementCookie' = s.powerManagementCookie
    /\ timer' = s.timer
    /\ inhibit_id' = s.inhibit_id
    /\ ssProxy' = s.ssProxy
    /\ held' = s.held
    /\ sources' = s.sources
    /\ live' = s.live
    /\ emitted' = s.emitted
    /\ calls' = s.calls
    /\ cancelled' = s.cancelled
    /\ shown' = s.shown
    /\ stray' = s.stray
    /\ exc' = s.exc

WmStates == {"_NET_WM_STATE_FULLSCREEN", "_NET_WM_STATE_FOCUSED"}

\* One host for each outcome of the detection.
Hosts == {CHOOSE env \in Environments : DetectedType(env) = type :
            type \in {DetectedType(env) : env \in Environments}}

Init ==
    /\ inhibition_activated = FALSE
    /\ inhibition_successful = FALSE
    /\ auto_activated = FALSE
    /\ screensaverAndPowersavingType = "None"
    /\ status_string = EmptyStatus
    /\ screenSaverCookie = NoCookie
    /\ powerManagementCookie = NoCookie
    /\ timer = NoTimer
    /\ inhibit_id = 0
    /\ ssProxy = FALSE
    /\ held = {}
    /\ sources = {}
    /\ live = {}
    /\ quitted = FALSE
    /\ expiring = NoThread
    /\ host \in Hosts
    /\ disturbances = 0
    /\ emitted = <<>>
    /\ calls = <<>>
    /\ cancelled = <<>>
    /\ shown = <<>>
    /\ stray = {}
    /\ exc = FALSE
    /\ lastOp = "__init__"

SetActivated ==
    /\ ~quitted
    /\ \E activate \in BOOLEAN, n \in BOOLEAN :
          \E s \in set_activated(Begin, activate, n) :
              /\ Commit(s)
              /\ lastOp' = "set_activated"
    /\ UNCHANGED <<quitted, expiring, host>>

ToggleActivated ==
    /\ ~quitted
    /\ \E n \in BOOLEAN :
          \E s \in toggle_activated(Begin, n) :
              /\ Commit(s)
              /\ lastOp' = "toggle_activated"
    /\ UNCHANGED <<quitted, expiring, host>>

TimedActivation ==
    /\ ~quitted
    /\ \E time \in Durations, n \in BOOLEAN :
          \E s \in timed_activation(Begin, time, n) :
              /\ Commit(s)
              /\ lastOp' = "timed_activation"
    /\ UNCHANGED <<quitted, expiring, host>>

\* One tick of the monitor that __init__ installs with GObject.timeout_add.
MonitorTick ==
    /\ ~quitted
    /\ \E process_running \in {ProcessRunning(l, r) : l \in SUBSET Procs, r \in SUBSET Procs},
          fullscreen \in {Fullscreen(w, st) : w \in BOOLEAN, st \in SUBSET WmStates} :
          \E s \in __attempt_autoactivation(Begin, process_running, fullscreen) :
              /\ Commit(s)
              /\ lastOp' = "__attempt_autoactivation"
    /\ UNCHANGED <<quitted, expiring, host>>

\* A Timer thread that was not cancelled runs its function, _deactivate, with
\* nothing else running meanwhile.
TimerExpiry ==
    /\ expiring = NoThread
    /\ \E t \in live :
          \E s \in _deactivate([Begin EXCEPT !.live = @ \ {t}], t.note) :
              /\ Commit(s)
              /\ lastOp' = "_deactivate"
    /\ UNCHANGED <<quitted, expiring, host>>

Quit ==
    /\ ~quitted
    /\ Commit(quit(Begin))
    /\ lastOp' = "quit"
    /\ quitted' = TRUE
    /\ UNCHANGED <<expiring, host>>

\* A service or xscreensaver appears on the host or leaves it.
HostChange ==
    /\ ~quitted
    /\ disturbances < MaxDisturbances
    /\ \E env \in Hosts \ {host} :
          /\ host' = env
          /\ disturbances' = disturbances + 1
    /\ lastOp' = "host"
    /\ emitted' = <<>> /\ calls' = <<>> /\ cancelled' = <<>> /\ shown' = <<>> /\ stray' = {} /\ exc' = FALSE
    /\ UNCHANGED <<inhibition_activated, inhibition_successful, auto_activated,
                   screensaverAndPowersavingType, status_string, screenSaverCookie,
                   powerManagementCookie, timer, inhibit_id, ssProxy, held,
                   sources, live, quitted, expiring>>

Next ==
    \/ SetActivated
    \/ ToggleActivated
    \/ TimedActivation
    \/ MonitorTick
    \/ TimerExpiry
    \/ Quit
    \/ HostChange

Spec == Init /\ [][Next]_vars

----------------------------------------------------------------------------
\* The Timer thread beside the main loop.  threading.Timer runs _deactivate on
\* a thread of its own and the class takes no lock, so that the operations of
\* the main loop may run between the statements of _deactivate.  (They may run
\* inside its toggle_activated as well; the steps below leave that out, let
\* one Timer thread be inside its function at a time, and keep the host's
\* services as they are.)

\* Timer.run: the wait is over, finished is not set, the function is called.
ExpiryBegin ==
    /\ expiring = NoThread
    /\ \E t \in live :
          /\ live' = live \ {t}
          /\ expiring' = [pc |-> "name", id |-> t.id, note |-> t.note]
    /\ lastOp' = "Timer.run"
    /\ emitted' = <<>> /\ calls' = <<>> /\ cancelled' = <<>> /\ shown' = <<>>
    /\ stray' = {} /\ exc' = FALSE
    /\ UNCHANGED <<inhibition_activated, inhibition_successful, auto_activated,
                   screensaverAndPowersavingType, status_string, screenSaverCookie,
                   powerManagementCookie, timer, inhibit_id, ssProxy, held,
                   sources, quitted, host, disturbances>>

\* self.timer.name = "Expired": an AttributeError, which ends the thread, when
\* self.timer is None.
ExpiryName ==
    /\ expiring.pc = "name"
    /\ IF timer = NoTimer
       THEN exc' = TRUE /\ expiring' = NoThread /\ UNCHANGED timer
       ELSE /\ exc' = FALSE
            /\ expiring' = [expiring EXCEPT !.pc = "toggle"]
            /\ timer' = [timer EXCEPT !.name = "Expired"]
    /\ lastOp' = "_deactivate:206"
    /\ emitted' = <<>> /\ calls' = <<>> /\ cancelled' = <<>> /\ shown' = <<>>
    /\ stray' = {}
    /\ UNCHANGED <<inhibition_activated, inhibition_successful, auto_activated,
                   screensaverAndPowersavingType, status_string, screenSaverCookie,
                   powerManagementCookie, inhibit_id, ssProxy, held,
                   sources, live, quitted, host, disturbances>>

\* self.toggle_activated(note=note), after which the thread ends.
ExpiryToggle ==
    /\ expiring.pc = "toggle"
    /\ \E s \in toggle_activated(Begin, expiring.note) :
          /\ Commit(s)
          /\ lastOp' = "_deactivate:207"
    /\ expiring' = NoThread
    /\ UNCHANGED <<quitted, host>>

NextThreads ==
    \/ SetActivated
    \/ ToggleActivated
    \/ TimedActivation
    \/ MonitorTick
    \/ Quit
    \/ ExpiryBegin
    \/ ExpiryName
    \/ ExpiryToggle

SpecThreads == Init /\ [][NextThreads]_vars

----------------------------------------------------------------------------
\* Properties

Events(s) == {s.emitted[i] : i \in 1..Len(s.emitted)}
Shown(s) == {s.shown[i] : i \in 1..Len(s.shown)}
LiveIds == {t.id : t \in live}
\* self.timer refers to a Timer whose thread still waits.
TimerPending == timer # NoTimer /\ timer.name = "Active" /\ timer.id \in LiveIds

\* C1: in every reachable state, set_activated called with the value the
\* active flag already has leaves every field as it was, emits no event, makes
\* no detection and no adapter call, and neither cancels nor replaces the timer.
C1_SetActivatedCurrentIsNoOp ==
    \A n \in BOOLEAN : set_activated(Begin, inhibition_activated, n) = {Begin}

\* set_activated has returned without a toggle while a timer was pending.
C1_Witness ==
    /\ lastOp = "set_activated"
    /\ ~exc /\ emitted = <<>> /\ calls = <<>> /\ cancelled = <<>>
    /\ inhibition_activated
    /\ TimerPending

\* C2 (as claimed): every call of toggle_activated flips the active flag and
\* emits exactly one activation-toggled event during the call.
C2_ToggleFlipsAndEmitsOnce ==
    [][lastOp' = "toggle_activated"
         => /\ inhibition_activated' # inhibition_activated
            /\ Len(emitted') = 1]_vars

\* C3: when a timed activation is pending, timed_activation(d2) returns with
\* inhibition active and exactly one waiting timer, the new one, whose duration
\* is d2; the timer it found is cancelled, and no event of the call reports a
\* deactivation.
C3_SecondTimedActivationSupersedes ==
    TimerPending =>
        \A d2 \in Durations, n \in BOOLEAN :
            \A s \in timed_activation(Begin, d2, n) :
                /\ ~s.exc
                /\ s.activated
                /\ s.timer.interval = d2
                /\ s.timer.name = "Active"
                /\ s.live = {[id |-> s.timer.id, note |-> n]}
                /\ s.cancelled = <<timer>>
                /\ \A e \in Events(s) : e.active

\* timed_activation(10) has superseded a pending timed activation of 5.
C3_Witness ==
    /\ lastOp = "timed_activation"
    /\ Len(cancelled) = 1 /\ cancelled[1].interval = 5
    /\ timer.interval = 10
    /\ Cardinality(live) = 1
    /\ inhibition_activated

\* C4 (as claimed): a timer expiry leaves inhibition off with no timer, and
\* the status message of its event differs from the status message of the event
\* that a manual cancellation of the same pending timer produces.
C4_ExpiryStatusDiffersFromCancelStatus ==
    [][(lastOp' = "_deactivate" /\ ~exc')
         => /\ ~inhibition_activated'
            /\ timer' = NoTimer
            /\ emitted' # <<>>
            /\ \A n \in BOOLEAN : \A s \in toggle_activated(Begin, n) :
                  \A e \in Events(s) : \A i \in 1..Len(emitted') :
                      e.status # emitted'[i].status]_vars

\* C4 (amended): the expiry of the pending timer leaves inhibition off with no
\* timer; every event it emits reports active=false with the dormant status,
\* the same status as the event of a manual cancellation; what tells the two
\* apart is the notification: the expiry shows nothing but the "elapsed"
\* message, a manual cancellation nothing but the "cancelled" one.
C4_ExpiryNotifiesElapsed ==
    TimerPending =>
        /\ \A t \in {x \in live : x.id = timer.id} :
              \A s \in _deactivate([Begin EXCEPT !.live = @ \ {t}], t.note) :
                 /\ ~s.activated
                 /\ s.timer = NoTimer
                 /\ s.live = live \ {t}
                 /\ Events(s) \subseteq {[active |-> FALSE, status |-> DormantStatus]}
                 /\ Shown(s) \subseteq {ElapsedMessage(timer.interval)}
        /\ \A n \in BOOLEAN : \A s \in toggle_activated(Begin, n) :
                 /\ Events(s) \subseteq {[active |-> FALSE, status |-> DormantStatus]}
                 /\ Shown(s) \subseteq {CancelledMessage(timer.interval)}
        /\ ElapsedMessage(timer.interval) # CancelledMessage(timer.interval)

\* A timer has expired, the "elapsed" notification was shown and the event
\* carries the dormant status.
C4_Witness ==
    /\ lastOp = "_deactivate"
    /\ ~exc
    /\ ~inhibition_activated /\ timer = NoTimer
    /\ shown = <<ElapsedMessage(5)>>
    /\ emitted = <<[active |-> FALSE, status |-> DormantStatus]>>

\* C5 (as claimed): once the backend type is resolved it never changes.
C5_BackendTypeStable ==
    [][screensaverAndPowersavingType # "None"
         => screensaverAndPowersavingType' = screensaverAndPowersavingType]_vars

\* C6: while inhibition is active and not auto-activated, a monitor tick,
\* whatever the process and fullscreen signals, leaves every field as it was,
\* emits no event and makes no backend call.
C6_ManualActivationIgnoresMonitor ==
    (inhibition_activated /\ ~auto_activated) =>
        \A process_running \in BOOLEAN, fullscreen \in BOOLEAN :
            __attempt_autoactivation(Begin, process_running, fullscreen) = {Begin}

\* A monitor tick has returned while inhibition was manually active (a tick
\* that activates leaves the auto flag set).
C6_Witness ==
    /\ lastOp = "__attempt_autoactivation"
    /\ inhibition_activated /\ ~auto_activated
    /\ ~exc /\ emitted = <<>> /\ calls = <<>>

\* C7: a monitor tick (1) that finds inhibition inactive and a listed process
\* or a fullscreen window ends with active and auto-activated set; (2) that
\* finds inhibition auto-activated and neither signal ends with both clear;
\* in every other case it changes nothing, emits nothing and calls nothing.
C7_MonitorTransitions ==
    \A process_running \in BOOLEAN, fullscreen \in BOOLEAN :
        LET after == __attempt_autoactivation(Begin, process_running, fullscreen)
        IN  IF ~inhibition_activated /\ (process_running \/ fullscreen)
            THEN \A s \in after : s.activated /\ s.auto /\ s # Begin
            ELSE IF auto_activated /\ ~process_running /\ ~fullscreen
            THEN \A s \in after : ~s.activated /\ ~s.auto /\ s # Begin
            ELSE after = {Begin}

\* A monitor tick has deactivated an auto-activated inhibition.
C7_Witness ==
    /\ lastOp = "__attempt_autoactivation"
    /\ ~inhibition_activated /\ ~auto_activated
    /\ ~exc
    /\ emitted = <<[active |-> FALSE, status |-> DormantStatus]>>

\* C8 (as claimed): an operation (here: of a run in which no call fails)
\* emits one event for each flip of the active flag, and the event carries the
\* value of the flag after the flip, so that timed_activation from off emits
\* one event, with active=true, and timed_activation while active emits none.
C8_OneEventPerFlip ==
    [][disturbances' = 0
         => /\ Len(emitted') = (IF inhibition_activated' # inhibition_activated
                                THEN 1 ELSE 0)
            /\ \A i \in 1..Len(emitted') : emitted'[i].active = inhibition_activated']_vars

\* C9 (as claimed): when a call fails during an operation that flips the
\* active flag, the operation still returns normally and its last event
\* reports the flip.
C9_BackendFailureSwallowed ==
    [][(lastOp' # "host" /\ disturbances' > disturbances
        /\ inhibition_activated' # inhibition_activated)
         => /\ ~exc'
            /\ emitted' # <<>>
            /\ emitted'[Len(emitted')].active = inhibition_activated']_vars

\* C10 (as claimed): timed_activation called while inhibition is
\* auto-activated (here: in a run in which no call fails) leaves the
\* auto-activated flag clear and a timer pending, and a monitor tick that
\* finds a timed activation pending neither deactivates inhibition nor
\* cancels the timer.
C10_TimedSupersedesAuto ==
    [][/\ (lastOp' = "timed_activation" /\ auto_activated /\ disturbances' = 0)
            => (~auto_activated' /\ timer' # NoTimer)
       /\ (lastOp' = "__attempt_autoactivation" /\ TimerPending)
            => (inhibition_activated' /\ timer' = timer /\ live' = live)]_vars

\* The services at which an inhibition is outstanding.
Inhibited(h) == {c.svc : c \in h}

\* C11 (as claimed): a failure inside _notify is caught and leaves the
\* inhibition as a successful notification leaves it.  timed_activation called
\* while inhibition is active makes no backend call but those of _notify, so
\* that a call that raised during it raised in _notify; it returns normally
\* with the flag still set, a timer pending, the same services inhibited and
\* the stored screensaver cookie outstanding if the one it found was.
C11_NotifyFailureKeepsInhibition ==
    [][(lastOp' = "timed_activation" /\ inhibition_activated
        /\ disturbances' > disturbances)
         => /\ ~exc'
            /\ inhibition_activated'
            /\ TimerPending'
            /\ Inhibited(held') = Inhibited(held)
            /\ (screenSaverCookie' \in held') = (screenSaverCookie \in held)]_vars

\* The backend calls an operation has made.
CallsOf(s) == {s.calls[i] : i \in 1..Len(s.calls)}
\* The operation made no call that raised.
Undisturbed(s) == s.disturbances = disturbances

\* C12: in every reachable state, no adapter and no notification calls an
\* uninhibit (session-manager Uninhibit, screensaver UnInhibit,
\* power-management UnInhibit, GObject.source_remove) unless the cookie or
\* source id it passes is stored; an adapter that finds inhibition applied and
\* no cookie stored returns normally when no D-Bus call raises; and the KDE
\* adapter that finds one of its two cookies stored releases that one.
C12_NoUninhibitWithoutCookie ==
    /\ \A s \in _toggleGnome3(Begin) :
          /\ "sm.UnInhibit" \in CallsOf(s)
                => (inhibition_successful /\ screenSaverCookie # NoCookie)
          /\ Undisturbed(s) => ~s.exc
    /\ \A s \in _toggleKDE(Begin) :
          /\ "ss.UnInhibit" \in CallsOf(s)
                => (inhibition_successful /\ screenSaverCookie # NoCookie)
          /\ "pm.UnInhibit" \in CallsOf(s)
                => (inhibition_successful /\ powerManagementCookie # NoCookie)
          /\ Undisturbed(s) => ~s.exc
          /\ (Undisturbed(s) /\ inhibition_successful) =>
                /\ screenSaverCookie # NoCookie => "ss.UnInhibit" \in CallsOf(s)
                /\ powerManagementCookie # NoCookie => "pm.UnInhibit" \in CallsOf(s)
    /\ \E s \in _toggleGnome3(Begin) : Undisturbed(s)
    /\ \E s \in _toggleKDE(Begin) : Undisturbed(s)
    /\ "GObject.source_remove" \in CallsOf(_toggleXSS(Begin))
          => (inhibition_successful /\ inhibit_id # 0)
    /\ ~_toggleXSS(Begin).exc
    /\ \A d \in Durations : \A s \in _notify(Begin, TimedSetMessage(d)) :
          "ss.UnInhibit" \in CallsOf(s) => screenSaverCookie # NoCookie

\* A deactivation has gone through the KDE adapter on an object that never
\* received a cookie, without an uninhibit call and without an error.
C12_Witness ==
    /\ lastOp \in {"toggle_activated", "set_activated"}
    /\ screensaverAndPowersavingType = "KDE"
    /\ ~inhibition_activated /\ ~inhibition_successful /\ ~exc
    /\ screenSaverCookie = NoCookie /\ powerManagementCookie = NoCookie
    /\ "xset +dpms" \in {calls[i] : i \in 1..Len(calls)}
    /\ {"ss.UnInhibit", "pm.UnInhibit"} \cap {calls[i] : i \in 1..Len(calls)} = {}

\* C13 (as claimed): an operation (here: of a run in which no call fails and
\* the host does not change) that takes inhibition from active to inactive
\* and returns normally leaves no inhibition outstanding at any service and
\* no cookie stored.
C13_InactiveHoldsNoCookie ==
    [][(inhibition_activated /\ ~inhibition_activated' /\ ~exc' /\ disturbances' = 0)
         => /\ held' = {}
            /\ screenSaverCookie' = NoCookie
            /\ powerManagementCookie' = NoCookie]_vars

\* C14: with operations serialized, in every reachable state at most one
\* Timer thread waits, and it is the one self.timer refers to; a timer waits
\* only while inhibition is active, and while inhibition is inactive
\* self.timer refers to no timer; every operation that turns inhibition off
\* (manual toggle, monitor tick, expiry), however it ends, leaves no timer
\* waiting.
C14_TimerOnlyWhileActive ==
    /\ Cardinality(live) <= 1
    /\ \A t \in live : TimerPending /\ t.id = timer.id /\ inhibition_activated
    /\ ~inhibition_activated => (live = {} /\ timer = NoTimer)
    /\ inhibition_activated =>
          /\ \A n \in BOOLEAN : \A s \in toggle_activated(Begin, n) :
                s.live = {} /\ s.timer = NoTimer
          /\ \A t \in live : \A s \in _deactivate([Begin EXCEPT !.live = @ \ {t}], t.note) :
                s.live = {} /\ s.timer = NoTimer
          /\ auto_activated =>
                \A s \in __attempt_autoactivation(Begin, FALSE, FALSE) :
                    s.live = {} /\ s.timer = NoTimer

\* A monitor tick has turned off an auto-activated inhibition and cancelled
\* the timed activation that was pending.
C14_Witness ==
    /\ lastOp = "__attempt_autoactivation"
    /\ ~inhibition_activated
    /\ Len(cancelled) = 1
    /\ live = {} /\ timer = NoTimer

\* The calls of a sequence that acquire or release a cookie, in their order.
CookieCalls(seq) ==
    SelectSeq(seq, LAMBDA c : c \in {"pm.Inhibit", "ss.Inhibit",
                                     "pm.UnInhibit", "ss.UnInhibit"})
IsPrefix(p, q) == Len(p) <= Len(q) /\ SubSeq(q, 1, Len(p)) = p

\* C17: on a host whose backend is KDE, in every reachable state, the
\* toggling actions that find inhibition not applied acquire the
\* power-management cookie and then the screensaver cookie, and those that
\* find it applied with both cookies stored release the screensaver cookie and
\* then the power-management cookie; a call that raises cuts the sequence
\* short and never reorders it.
C17_KDEReleasesInReverseOrder ==
    DetectedType(host) = "KDE" =>
        \A s \in _performTogglingActions(Begin) :
            /\ ~inhibition_successful =>
                  /\ IsPrefix(CookieCalls(s.calls), <<"pm.Inhibit", "ss.Inhibit">>)
                  /\ ~s.exc => CookieCalls(s.calls) = <<"pm.Inhibit", "ss.Inhibit">>
            /\ (inhibition_successful /\ screenSaverCookie # NoCookie
                /\ powerManagementCookie # NoCookie) =>
                  /\ IsPrefix(CookieCalls(s.calls), <<"ss.UnInhibit", "pm.UnInhibit">>)
                  /\ ~s.exc => CookieCalls(s.calls) = <<"ss.UnInhibit", "pm.UnInhibit">>

\* A deactivation under KDE has released the cookies that the activation
\* before it acquired, the screensaver cookie first.
C17_Witness ==
    /\ lastOp \in {"toggle_activated", "set_activated"}
    /\ screensaverAndPowersavingType = "KDE"
    /\ ~inhibition_activated /\ ~inhibition_successful /\ ~exc
    /\ screenSaverCookie.svc = "ss" /\ powerManagementCookie.svc = "pm"
    /\ held = {}
    /\ CookieCalls(calls) = <<"ss.UnInhibit", "pm.UnInhibit">>

\* C18 (as claimed): when an operation (here: of a run in which no call
\* fails and the host does not change) has returned, status_string is empty.
C18_StatusClearedAfterOperation ==
    [][(lastOp' \in {"set_activated", "toggle_activated", "timed_activation",
                     "__attempt_autoactivation", "_deactivate"}
        /\ disturbances' = 0)
         => status_string' = EmptyStatus]_vars

\* C19 (as claimed): between operations the backend-applied flag equals the
\* requested flag, also after an operation in which a backend call failed.
C19_SuccessfulEqualsActivated ==
    inhibition_successful = inhibition_activated

\* C20 (as claimed): every cookie an operation passes to an uninhibit call is
\* outstanding at the service called: it was returned by an inhibit call of
\* that service and has not been released.
C20_UninhibitOnlyOwnOutstandingCookie ==
    stray = {}

\* C15 (as claimed): the expiry callback is serialized with the operations of
\* the main loop.  In a run in which no call fails, the callback's
\* self.timer.name = "Expired" finds self.timer referring to the Timer whose
\* thread runs it (not cleared, not replaced), and the callback's
\* toggle_activated never takes inhibition from inactive to active.
C15_ExpirySerialized ==
    [][disturbances' = 0 =>
         /\ lastOp' = "_deactivate:206" => (~exc' /\ timer.id = expiring.id)
         /\ lastOp' = "_deactivate:207"
               => ~(~inhibition_activated /\ inhibition_activated')]_vars

\* C16: in every reachable state, also one in which a Timer thread is inside
\* its function, each of the three cancellations (a superseding
\* timed_activation that gets as far as its cancel, a toggle that turns
\* inhibition off and finds the timer not expired, quit) leaves the Timer that
\* self.timer referred to not waiting, so that its function is never started;
\* and a Timer whose function has started is not waiting for a second start.
C16_CancelledTimerNeverFires ==
    /\ timer # NoTimer =>
          /\ timer.id \notin {t.id : t \in quit(Begin).live}
          /\ \A d \in Durations, n \in BOOLEAN :
                \A s \in timed_activation(Begin, d, n) :
                    ~s.exc => /\ timer.id \notin {t.id : t \in s.live}
                              /\ s.timer.id # timer.id
          /\ (inhibition_activated /\ timer.name # "Expired") =>
                /\ \A n \in BOOLEAN : \A s \in toggle_activated(Begin, n) :
                      timer.id \notin {t.id : t \in s.live}
                /\ auto_activated =>
                      \A s \in __attempt_autoactivation(Begin, FALSE, FALSE) :
                          timer.id \notin {t.id : t \in s.live}
    /\ expiring.id \notin LiveIds

\* quit has cancelled the pending timer while the thread of an earlier Timer
\* was inside its function.
C16_Witness ==
    /\ lastOp = "quit"
    /\ quitted
    /\ cancelled = <<timer>>
    /\ timer.name = "Active"
    /\ live = {}
    /\ expiring # NoThread

====
